---- MODULE Spec2Model ----
(***************************************************************************)
(* A model of the text-rewrite engine of src/transpiler.py (class          *)
(* Transpiler): mapping load, string-literal splitting, keyword            *)
(* substitution, special patterns (forward and reverse), the syntax and    *)
(* indentation fix-ups, and the loop of the interactive driver.            *)
(*                                                                         *)
(* A text is a sequence of one-character strings, so that every operation  *)
(* of the engine is computed character by character as Python's str and re *)
(* compute it.                                                             *)
(***************************************************************************)
EXTENDS Integers, Sequences, FiniteSets, TLC

VARIABLES
    engine,                  \* "none" | "ok" | "failed": the outcome of Transpiler(mapping_file)
    mapping_data,            \* self.mapping_data: the parsed configuration document
    mapping,                 \* self.mapping: ordered <<keyword, value>> pairs
    reverse_mapping,         \* self.reverse_mapping: ordered <<value, keyword>> pairs
    special_patterns,        \* self.special_patterns: ordered <<regex source, template>> pairs
    sorted_keywords,         \* self.sorted_keywords
    sorted_reverse_keywords, \* self.sorted_reverse_keywords
    stderr,                  \* diagnostic lines printed by the constructor
    op,                      \* the transform being executed: "none" | "to_python" | "from_python"
    pc,                      \* the position inside that transform
    source,                  \* the argument of the current call
    origin,                  \* the argument of the first call of the current chain of calls
    hist,                    \* the transforms applied since origin, in order
    prev,                    \* the text the stage executed last was given
    result,                  \* the local variable result / code
    parts,                   \* the local variable parts
    status,                  \* "ok" | "raised": whether the current call raised an exception
    repl_pc,                 \* start_repl: "none" (not called) | "prompt" | "ended"
    indent_level,            \* start_repl: the local variable indent_level
    buffer,                  \* start_repl: the local variable buffer, a list of lines
    input_line,              \* start_repl: the local variable line, what input() returned last
    lines_read,              \* the number of lines input() has returned
    code_to_execute,         \* _execute_repl_buffer: the texts given to to_python, in order
    python_code              \* _execute_repl_buffer: the text given to eval / exec last

vars == <<engine, mapping_data, mapping, reverse_mapping, special_patterns,
          sorted_keywords, sorted_reverse_keywords, stderr,
          op, pc, source, origin, hist, prev, result, parts, status,
          repl_pc, indent_level, buffer, input_line, lines_read, code_to_execute, python_code>>

\* the locals of start_repl and of the methods it calls
repl_vars == <<repl_pc, indent_level, buffer, input_line, lines_read, code_to_execute, python_code>>

tables == <<engine, mapping_data, mapping, reverse_mapping, special_patterns,
            sorted_keywords, sorted_reverse_keywords, stderr>>

-----------------------------------------------------------------------------
(* Characters *)

Letters ==
    {"a","b","c","d","e","f","g","h","i","j","k","l","m","n","o","p","q","r","s",
     "t","u","v","w","x","y","z","A","B","C","D","E","F","G","H","I","J","K","L",
     "M","N","O","P","Q","R","S","T","U","V","W","X","Y","Z"}

Digits == {"0","1","2","3","4","5","6","7","8","9"}

\* The control characters a replacement template can name and TLA+ cannot write.
BEL == "<bel>"
BS == "<bs>"
VT == "<vt>"
NUL == "<nul>"

\* \w of a str pattern: alphanumerics and the underscore.
IsWord(c) == c \in Letters \cup Digits \cup {"_"}

\* \s of a str pattern, and the characters str.lstrip() removes.
IsSpace(c) == c \in {" ", "\t", "\n", "\r", "\f", VT}

\* The marker an operation returns in place of a text when Python raises.
Raised == <<"<exception>">>

-----------------------------------------------------------------------------
(* str operations *)

\* ''.join(parts)
RECURSIVE Join(_)
Join(ps) == IF ps = <<>> THEN <<>> ELSE Head(ps) \o Join(Tail(ps))

\* s[i-1:].startswith(lit), i counted from 1
StartsAt(s, i, lit) ==
    /\ i + Len(lit) - 1 <= Len(s)
    /\ \A k \in 1..Len(lit) : s[i + k - 1] = lit[k]

\* s.replace(old, new) for a non-empty old: the occurrences of old, leftmost
\* first and not overlapping.
RECURSIVE ReplaceFrom(_, _, _, _)
ReplaceFrom(s, i, old, new) ==
    IF i > Len(s) THEN <<>>
    ELSE IF StartsAt(s, i, old) THEN new \o ReplaceFrom(s, i + Len(old), old, new)
    ELSE <<s[i]>> \o ReplaceFrom(s, i + 1, old, new)

Replace(s, old, new) == ReplaceFrom(s, 1, old, new)

\* len(line) - len(line.lstrip())
RECURSIVE LeadingWhitespace(_)
LeadingWhitespace(line) ==
    IF line # <<>> /\ IsSpace(Head(line)) THEN 1 + LeadingWhitespace(Tail(line)) ELSE 0

\* line.lstrip()
LStrip(line) == SubSeq(line, LeadingWhitespace(line) + 1, Len(line))

\* code.split('\n')
RECURSIVE SplitLinesFrom(_, _, _)
SplitLinesFrom(s, i, start) ==
    IF i > Len(s) THEN <<SubSeq(s, start, Len(s))>>
    ELSE IF s[i] = "\n" THEN <<SubSeq(s, start, i - 1)>> \o SplitLinesFrom(s, i + 1, i + 1)
    ELSE SplitLinesFrom(s, i + 1, start)

SplitLines(s) == SplitLinesFrom(s, 1, 1)

\* '\n'.join(lines)
RECURSIVE JoinLines(_)
JoinLines(ls) ==
    IF Len(ls) = 0 THEN <<>>
    ELSE IF Len(ls) = 1 THEN ls[1]
    ELSE ls[1] \o <<"\n">> \o JoinLines(Tail(ls))

\* n repetitions of a text
RECURSIVE Repeat(_, _)
Repeat(t, n) == IF n <= 0 THEN <<>> ELSE t \o Repeat(t, n - 1)

-----------------------------------------------------------------------------
(* re: replacement templates *)

DigitValue(c) ==
    CASE c = "0" -> 0 [] c = "1" -> 1 [] c = "2" -> 2 [] c = "3" -> 3 [] c = "4" -> 4
      [] c = "5" -> 5 [] c = "6" -> 6 [] c = "7" -> 7 [] c = "8" -> 8 [] c = "9" -> 9

\* a text followed by the rest of an expansion, which may have raised
Cat(a, b) == IF b = Raised THEN Raised ELSE a \o b

\* The character a template escape \c stands for, for the letters a template
\* may escape.
TemplateEscape(c) ==
    CASE c = "a" -> BEL [] c = "b" -> BS [] c = "f" -> "\f" [] c = "n" -> "\n"
      [] c = "r" -> "\r" [] c = "t" -> "\t" [] c = "v" -> VT

\* The replacement text of a template for a match whose groups 1..n captured
\* `groups`, as re expands it (sre_parse.parse_template and expand_template):
\* \1..\99 and \g<1>..\g<9> name a group and raise "invalid group reference"
\* beyond the pattern's groups; \a \b \f \n \r \t \v \\ are characters; a
\* backslash before any other ASCII letter, or ending the template, raises
\* "bad escape"; a backslash before anything else stays as it is.  (\0 is the
\* NUL character; octal escapes of several digits and named groups are not
\* modelled.)
RECURSIVE ExpandFrom(_, _, _)
ExpandFrom(tpl, i, groups) ==
    IF i > Len(tpl) THEN <<>>
    ELSE IF tpl[i] # "\\" THEN Cat(<<tpl[i]>>, ExpandFrom(tpl, i + 1, groups))
    ELSE IF i = Len(tpl) THEN Raised
    ELSE LET c == tpl[i + 1] IN
         IF c = "0" THEN Cat(<<NUL>>, ExpandFrom(tpl, i + 2, groups))
         ELSE IF c \in Digits THEN
              LET two == i + 2 <= Len(tpl) /\ tpl[i + 2] \in Digits
                  idx == IF two THEN 10 * DigitValue(c) + DigitValue(tpl[i + 2])
                         ELSE DigitValue(c)
              IN  IF idx > Len(groups) THEN Raised
                  ELSE Cat(groups[idx], ExpandFrom(tpl, IF two THEN i + 3 ELSE i + 2, groups))
         ELSE IF c = "g" THEN
              IF /\ i + 4 <= Len(tpl)
                 /\ tpl[i + 2] = "<"
                 /\ tpl[i + 3] \in Digits
                 /\ tpl[i + 4] = ">"
                 /\ DigitValue(tpl[i + 3]) \in 1..Len(groups)
              THEN Cat(groups[DigitValue(tpl[i + 3])], ExpandFrom(tpl, i + 5, groups))
              ELSE Raised
         ELSE IF c = "\\" THEN Cat(<<"\\">>, ExpandFrom(tpl, i + 2, groups))
         ELSE IF c \in {"a", "b", "f", "n", "r", "t", "v"}
              THEN Cat(<<TemplateEscape(c)>>, ExpandFrom(tpl, i + 2, groups))
         ELSE IF c \in Letters THEN Raised
         ELSE Cat(<<"\\", c>>, ExpandFrom(tpl, i + 2, groups))

\* the template expanded with every group empty
ExpandEmptyGroups(tpl, groups) == ExpandFrom(tpl, 1, [k \in 1..Len(groups) |-> <<>>])

Expand(tpl, groups) == ExpandFrom(tpl, 1, groups)

\* Whether re accepts tpl as the replacement of a pattern with n groups.  The
\* template is parsed when sub() is called, before any match is looked for.
TemplateOK(tpl, n) == Expand(tpl, [k \in 1..n |-> <<>>]) # Raised

-----------------------------------------------------------------------------
(* re: \b + re.escape(literal) + \b *)

IsWordAt(s, k) == k \in 1..Len(s) /\ IsWord(s[k])

\* \b at the position before s[p] (p = Len(s) + 1: at the end)
WordBoundary(s, p) == IsWordAt(s, p - 1) # IsWordAt(s, p)

\* re.escape(lit) without the two \b matches at s[i]
PlainMatchAt(s, i, lit) == StartsAt(s, i, lit)

\* re.compile(r'\b' + re.escape(lit) + r'\b') matches at s[i]
WordMatchAt(s, i, lit) ==
    /\ StartsAt(s, i, lit)
    /\ WordBoundary(s, i)
    /\ WordBoundary(s, i + Len(lit))

\* the matches replaced one after the other from the left, none overlapping
\* (an empty literal matches, emptily, at every position \b\b holds)
RECURSIVE SubWordFrom(_, _, _, _)
SubWordFrom(s, i, lit, new) ==
    IF i > Len(s) THEN (IF lit = <<>> /\ WordMatchAt(s, i, lit) THEN new ELSE <<>>)
    ELSE IF WordMatchAt(s, i, lit) THEN
         IF lit = <<>> THEN new \o <<s[i]>> \o SubWordFrom(s, i + 1, lit, new)
         ELSE new \o SubWordFrom(s, i + Len(lit), lit, new)
    ELSE <<s[i]>> \o SubWordFrom(s, i + 1, lit, new)

\* re.compile(r'\b' + re.escape(lit) + r'\b').sub(tpl, s)
SubWord(lit, tpl, s) ==
    IF ~TemplateOK(tpl, 0) THEN Raised ELSE SubWordFrom(s, 1, lit, Expand(tpl, <<>>))

-----------------------------------------------------------------------------
(* re: the special patterns.  A pattern is kept as its source text and matched
   by interpreting that text.  The fragment interpreted: a literal character,
   an escaped character, the classes \s \w \d, each optionally followed by the
   greedy quantifier +, groups ( ) that are not nested and not quantified,
   and backreferences \1..\9. *)

RegexSpecial == {".", "^", "$", "*", "+", "?", "{", "}", "[", "]", "\\", "|", "(", ")"}

NoMatch == [end |-> 0, groups |-> <<>>]

\* re.compile(p) succeeds, for a source of the fragment: the parentheses pair
\* up, no backslash ends the source, every escaped letter is a class, every +
\* follows a one-character atom, every backreference names a closed group.
RECURSIVE CompileScan(_, _, _, _, _)
CompileScan(p, i, open, n, q) ==
    IF i > Len(p) THEN ~open
    ELSE CASE p[i] = "(" -> ~open /\ CompileScan(p, i + 1, TRUE, n, FALSE)
           [] p[i] = ")" -> open /\ CompileScan(p, i + 1, FALSE, n + 1, FALSE)
           [] p[i] = "+" -> q /\ CompileScan(p, i + 1, open, n, FALSE)
           [] p[i] = "\\" ->
                /\ i < Len(p)
                /\ IF p[i + 1] \in Digits
                   THEN /\ DigitValue(p[i + 1]) \in 1..n
                        /\ CompileScan(p, i + 2, open, n, FALSE)
                   ELSE /\ p[i + 1] \in Letters => p[i + 1] \in {"s", "w", "d"}
                        /\ CompileScan(p, i + 2, open, n, TRUE)
           [] OTHER -> p[i] \notin RegexSpecial /\ CompileScan(p, i + 1, open, n, TRUE)

RegexCompiles(p) == CompileScan(p, 1, FALSE, 0, FALSE)

\* pattern.groups
RECURSIVE NGroupsFrom(_, _)
NGroupsFrom(p, i) ==
    IF i > Len(p) THEN 0
    ELSE IF p[i] = "\\" THEN NGroupsFrom(p, i + 2)
    ELSE (IF p[i] = "(" THEN 1 ELSE 0) + NGroupsFrom(p, i + 1)

NGroups(p) == NGroupsFrom(p, 1)

\* the one-character atom at p[i] (a literal, an escaped character or a class)
\* matches the character c
AtomMatches(p, i, c) ==
    IF p[i] = "\\"
    THEN CASE p[i + 1] = "s" -> IsSpace(c)
           [] p[i + 1] = "w" -> IsWord(c)
           [] p[i + 1] = "d" -> c \in Digits
           [] OTHER -> c = p[i + 1]
    ELSE c = p[i]

AtomLen(p, i) == IF p[i] = "\\" THEN 2 ELSE 1

\* the end of the longest run of characters from s[j] the atom at p[i] matches
RECURSIVE RunEnd(_, _, _, _)
RunEnd(p, i, s, j) ==
    IF j <= Len(s) /\ AtomMatches(p, i, s[j]) THEN RunEnd(p, i, s, j + 1) ELSE j

\* The backtracking match of p[i..] at s[j]: the position after the match and
\* the texts of the groups closed so far, or NoMatch.  gs is where the open
\* group began.  A quantified atom takes the longest run first and gives
\* characters back one at a time.
RECURSIVE MatchHere(_, _, _, _, _, _)
RECURSIVE MatchPlus(_, _, _, _, _, _, _)
MatchHere(p, i, s, j, gs, g) ==
    IF i > Len(p) THEN [end |-> j, groups |-> g]
    ELSE IF p[i] = "(" THEN MatchHere(p, i + 1, s, j, j, g)
    ELSE IF p[i] = ")" THEN MatchHere(p, i + 1, s, j, 0, Append(g, SubSeq(s, gs, j - 1)))
    ELSE IF p[i] = "\\" /\ p[i + 1] \in Digits THEN
         LET t == g[DigitValue(p[i + 1])]
         IN  IF StartsAt(s, j, t) THEN MatchHere(p, i + 2, s, j + Len(t), gs, g) ELSE NoMatch
    ELSE LET n == AtomLen(p, i) IN
         IF i + n <= Len(p) /\ p[i + n] = "+"
         THEN MatchPlus(p, i + n + 1, s, j, RunEnd(p, i, s, j), gs, g)
         ELSE IF j <= Len(s) /\ AtomMatches(p, i, s[j])
              THEN MatchHere(p, i + n, s, j + 1, gs, g)
              ELSE NoMatch

MatchPlus(p, i, s, j, k, gs, g) ==
    IF k <= j THEN NoMatch
    ELSE LET r == MatchHere(p, i, s, k, gs, g)
         IN  IF r.end # 0 THEN r ELSE MatchPlus(p, i, s, j, k - 1, gs, g)

\* pattern.match(s, j - 1)
MatchAt(p, s, j) == MatchHere(p, 1, s, j, 0, <<>>)

\* the matches replaced by the expanded template one after the other from the
\* left, none overlapping; an empty match is replaced too and the scan moves on
\* by one character
RECURSIVE SubRegexFrom(_, _, _, _)
SubRegexFrom(p, tpl, s, i) ==
    LET m == MatchAt(p, s, i) IN
    IF i > Len(s) THEN (IF m.end = i THEN Expand(tpl, m.groups) ELSE <<>>)
    ELSE IF m.end > i THEN Expand(tpl, m.groups) \o SubRegexFrom(p, tpl, s, m.end)
    ELSE IF m.end = i THEN Expand(tpl, m.groups) \o <<s[i]>> \o SubRegexFrom(p, tpl, s, i + 1)
    ELSE <<s[i]>> \o SubRegexFrom(p, tpl, s, i + 1)

\* re.compile(p).sub(tpl, s)
SubRegex(p, tpl, s) ==
    IF ~TemplateOK(tpl, NGroups(p)) THEN Raised ELSE SubRegexFrom(p, tpl, s, 1)

-----------------------------------------------------------------------------
(* Ordered dictionaries (dict keeps insertion order): sequences of <<key, value>> *)

Keys(d) == [i \in 1..Len(d) |-> d[i][1]]

HasKey(d, k) == \E i \in 1..Len(d) : d[i][1] = k

Lookup(d, k) == d[CHOOSE i \in 1..Len(d) : d[i][1] = k][2]

\* each value of d with the first of the keywords that map to it
FirstKeywordWins(d) ==
    LET firsts == SelectSeq([i \in 1..Len(d) |-> i],
                            LAMBDA i : \A j \in 1..(i - 1) : d[j][2] # d[i][2])
    IN  [n \in 1..Len(firsts) |-> <<d[firsts[n]][2], d[firsts[n]][1]>>]

\* {v: k for k, v in d.items()}: a dict comprehension sets the keys in the
\* order of the items, so a value that several keywords map to stands where it
\* came first and holds the keyword that came last
ReverseMapping(d) ==
    LET firsts == SelectSeq([i \in 1..Len(d) |-> i],
                            LAMBDA i : \A j \in 1..(i - 1) : d[j][2] # d[i][2])
        last(v) == CHOOSE i \in 1..Len(d) :
                       d[i][2] = v /\ \A j \in (i + 1)..Len(d) : d[j][2] # v
    IN  [n \in 1..Len(firsts) |-> <<d[firsts[n]][2], d[last(d[firsts[n]][2])][1]>>]

MaxLenOf(ks) == IF ks = <<>> THEN 0 ELSE CHOOSE n \in {Len(ks[i]) : i \in 1..Len(ks)} :
                                          \A i \in 1..Len(ks) : Len(ks[i]) <= n

\* sorted(ks, key=len, reverse=True): the sort is stable, keys of one length
\* keep their order
RECURSIVE SortedFrom(_, _)
SortedFrom(ks, n) ==
    IF n < 0 THEN <<>>
    ELSE SelectSeq(ks, LAMBDA k : Len(k) = n) \o SortedFrom(ks, n - 1)

\* the keys in the order of the mapping, not sorted
FileOrder(ks) == ks

SortedByLenDesc(ks) == SortedFrom(ks, MaxLenOf(ks))

-----------------------------------------------------------------------------
(* Transpiler._split_by_strings *)

\* (?:\\q|[^q])*q from code[p], q the quote that opened the literal: the
\* position of the closing quote, or 0.  Each step of the loop tries \q first
\* and any other character second, and leaves the loop last.
RECURSIVE StringBody(_, _, _)
StringBody(code, q, p) ==
    IF p > Len(code) THEN 0
    ELSE IF code[p] = "\\" /\ p + 1 <= Len(code) /\ code[p + 1] = q THEN
         LET r == StringBody(code, q, p + 2)
         IN  IF r # 0 THEN r ELSE StringBody(code, q, p + 1)
    ELSE IF code[p] # q THEN StringBody(code, q, p + 1)
    ELSE p

\* string_pattern matched at code[i]: the position of the closing quote, or 0
StringMatchEnd(code, i) ==
    IF code[i] \in {"'", "\""} THEN StringBody(code, code[i], i + 1) ELSE 0

\* re.split(string_pattern, code): the texts between the matches and, the
\* pattern being one group, the matches themselves
RECURSIVE SplitFrom(_, _, _)
SplitFrom(code, i, start) ==
    IF i > Len(code) THEN <<SubSeq(code, start, Len(code))>>
    ELSE LET e == StringMatchEnd(code, i) IN
         IF e = 0 THEN SplitFrom(code, i + 1, start)
         ELSE <<SubSeq(code, start, i - 1), SubSeq(code, i, e)>> \o SplitFrom(code, e + 1, e + 1)

\* re.split with the group of string_pattern left out: the matches are dropped
SplitWithoutGroup(code) ==
    LET ps == SplitFrom(code, 1, 1)
    IN  [i \in 1..((Len(ps) + 1) \div 2) |-> ps[2 * i - 1]]

_split_by_strings(code) == SplitFrom(code, 1, 1)

\* the non-string parts are those at the even indices of Python's list, the
\* odd ones of a sequence counted from 1
IsCodeIndex(i) == i % 2 = 1

AnyRaised(ps) == \E i \in 1..Len(ps) : ps[i] = Raised

-----------------------------------------------------------------------------
(* Keyword replacement: the loops of _apply_keyword_replacements and from_python *)

\* for keyword in keys: part = patterns[keyword].sub(table[keyword], part)
RECURSIVE ApplyKeywords(_, _, _)
ApplyKeywords(keys, table, part) ==
    IF keys = <<>> \/ part = Raised THEN part
    ELSE ApplyKeywords(Tail(keys), table, SubWord(Head(keys), Lookup(table, Head(keys)), part))

\* the keywords applied to every part, string literals too
ReplaceInAllParts(ps, keys, table) ==
    [i \in 1..Len(ps) |-> ApplyKeywords(keys, table, ps[i])]

\* for i in range(0, len(parts), 2): the keywords applied to parts[i]
ReplaceInCodeParts(ps, keys, table) ==
    [i \in 1..Len(ps) |-> IF IsCodeIndex(i) THEN ApplyKeywords(keys, table, ps[i]) ELSE ps[i]]

-----------------------------------------------------------------------------
(* Transpiler._apply_special_patterns *)

\* JSON values: a string carries its text, an object its ordered members
Str(t) == [t |-> "str", v |-> t]
Obj(members) == [t |-> "obj", v |-> members]

\* for pattern, replacement in compiled_special_patterns.items():
\*     code = pattern.sub(replacement, code)
\* (re raises TypeError for a replacement that is not a string)
\* the patterns applied from the last of the table to the first
RECURSIVE LastPatternFirst(_, _)
LastPatternFirst(patterns, code) ==
    IF patterns = <<>> \/ code = Raised THEN code
    ELSE LET c == LastPatternFirst(Tail(patterns), code)
             src == Head(patterns)[1]
             repl == Head(patterns)[2]
         IN  IF c = Raised \/ repl.t # "str" THEN Raised ELSE SubRegex(src, repl.v, c)

RECURSIVE _apply_special_patterns(_, _)
_apply_special_patterns(patterns, code) ==
    IF patterns = <<>> \/ code = Raised THEN code
    ELSE LET src == Head(patterns)[1]
             repl == Head(patterns)[2]
         IN  _apply_special_patterns(Tail(patterns),
                 IF repl.t # "str" THEN Raised ELSE SubRegex(src, repl.v, code))

-----------------------------------------------------------------------------
(* Transpiler._fix_syntax_issues *)

AT_PROPERTY == <<"@","p","r","o","p","e","r","t","y">>
AT_STATICMETHOD == <<"@","s","t","a","t","i","c","m","e","t","h","o","d">>
AT_CLASSMETHOD == <<"@","c","l","a","s","s","m","e","t","h","o","d">>
IF_MAIN == <<"i","f"," ","_","_","m","a","i","n","_","_"," ","=","=">>
IF_NAME == <<"i","f"," ","_","_","n","a","m","e","_","_"," ","=","=">>
LIST_SP == <<"l","i","s","t"," ">>
DICT_SP == <<"d","i","c","t"," ">>
L_PLUS_DEL == <<"L","_","p","l","u","s","_","d","e","l">>
EXCEPTION == <<"E","x","c","e","p","t","i","o","n">>

AllSpaceFrom(s, i) == \A k \in i..Len(s) : IsSpace(s[k])

\* re.sub(name + r'\s*$', name, code): \s* is greedy and $ holds at the end of
\* the text (or before a newline that ends it, which \s* has then taken), so
\* the pattern matches at the leftmost name that only whitespace follows, up
\* to the end of the text
SubDecorator(name, code) ==
    LET at == {i \in 1..Len(code) : StartsAt(code, i, name) /\ AllSpaceFrom(code, i + Len(name))}
    IN  IF at = {} THEN code
        ELSE LET i == CHOOSE i \in at : \A k \in at : i <= k
             IN  SubSeq(code, 1, i - 1) \o name

_fix_syntax_issues(code) ==
    LET c1 == SubDecorator(AT_PROPERTY, code)
        c2 == SubDecorator(AT_STATICMETHOD, c1)
        c3 == SubDecorator(AT_CLASSMETHOD, c2)
        c4 == Replace(c3, IF_MAIN, IF_NAME)
        c5 == Replace(c4, LIST_SP, <<>>)
        c6 == Replace(c5, DICT_SP, <<>>)
    IN  Replace(c6, L_PLUS_DEL, EXCEPTION)

-----------------------------------------------------------------------------
(* Transpiler._fix_indentation *)

IndentWidth == 4

IndentUnit == <<" ", " ", " ", " ">>

\* '    ' * (leading_spaces // 4) + line.lstrip()
IndentLine(line) ==
    Repeat(IndentUnit, LeadingWhitespace(line) \div IndentWidth) \o LStrip(line)

_fix_indentation(code) ==
    LET lines == SplitLines(code)
    IN  JoinLines([i \in 1..Len(lines) |-> IndentLine(lines[i])])

-----------------------------------------------------------------------------
(* Transpiler._apply_reverse_special_patterns *)

\* re.search(r'\\(\d+)', src): where the first backslash that a digit follows
\* stands, or 0
FirstBackref(src) ==
    LET at == {i \in 1..Len(src) - 1 : src[i] = "\\" /\ src[i + 1] \in Digits}
    IN  IF at = {} THEN 0 ELSE CHOOSE i \in at : \A k \in at : i <= k

RECURSIVE DigitsEnd(_, _)
DigitsEnd(src, j) == IF j <= Len(src) /\ src[j] \in Digits THEN DigitsEnd(src, j + 1) ELSE j

\* str(int(digits)): the digits without their leading zeros
RECURSIVE IntText(_)
IntText(ds) == IF Len(ds) > 1 /\ Head(ds) = "0" THEN IntText(Tail(ds)) ELSE ds

\* len(list(reverse_pattern.finditer(part)))
RECURSIVE CountWordMatches(_, _, _)
CountWordMatches(s, i, lit) ==
    IF i > Len(s) THEN 0
    ELSE IF WordMatchAt(s, i, lit) /\ lit # <<>> THEN 1 + CountWordMatches(s, i + Len(lit), lit)
    ELSE CountWordMatches(s, i + 1, lit)

\* part = part.replace(old, new), n times
RECURSIVE ReplaceTimes(_, _, _, _)
ReplaceTimes(s, old, new, n) ==
    IF n = 0 THEN s ELSE ReplaceTimes(Replace(s, old, new), old, new, n - 1)

\* The body of the loop over the patterns, for one pattern and one part.  The
\* reverse pattern is \b + re.escape(replacement) + \b and so has no group.
\* When the SOURCE of the pattern holds a backslash and digits, every match m
\* of the reverse pattern in the part as it was replaces m.group(0), which is
\* the replacement text, by the source with that reference replaced by the
\* captured value: m.group(0) for the reference \0, the empty text otherwise.
\* Otherwise the reverse pattern substitutes the source, taken as a template.
ReverseOnePattern(src, repl, part) ==
    IF repl.t # "str" THEN Raised
    ELSE LET b == FirstBackref(src) IN
         IF b # 0
         THEN LET num == IntText(SubSeq(src, b + 1, DigitsEnd(src, b + 1) - 1))
                  captured == IF num = <<"0">> THEN repl.v ELSE <<>>
                  original_format == Replace(src, <<"\\">> \o num, captured)
              IN  ReplaceTimes(part, repl.v, original_format, CountWordMatches(part, 1, repl.v))
         ELSE SubWord(repl.v, src, part)

\* for pattern, replacement in compiled_special_patterns.items(): ...
RECURSIVE ReversePatterns(_, _)
ReversePatterns(patterns, part) ==
    IF patterns = <<>> \/ part = Raised THEN part
    ELSE ReversePatterns(Tail(patterns),
                         ReverseOnePattern(Head(patterns)[1], Head(patterns)[2], part))

\* for i in range(0, len(parts), 2): the patterns reversed in parts[i]
ReverseInCodeParts(ps, patterns) ==
    [i \in 1..Len(ps) |-> IF IsCodeIndex(i) THEN ReversePatterns(patterns, ps[i]) ELSE ps[i]]

-----------------------------------------------------------------------------
(* Transpiler.__init__ *)

KEYWORDS == <<"k","e","y","w","o","r","d","s">>
SPECIAL_PATTERNS == <<"s","p","e","c","i","a","l","_","p","a","t","t","e","r","n","s">>

LEGACY_WARNING == "Warning: Using legacy mapping format. Consider updating to structured format."

\* A document is a JSON value (Str, Obj, or [t |-> "num"], [t |-> "list"] for
\* the values that are neither), or Unreadable: a file open() or json.load()
\* raises for.
Unreadable == [t |-> "unreadable"]
NoDocument == [t |-> "none"]

IsStructured(data) == data.t = "obj" /\ HasKey(data.v, KEYWORDS)

_extract_keyword_mappings(data) ==
    IF IsStructured(data) THEN Lookup(data.v, KEYWORDS) ELSE data

\* self.mapping_data.get("special_patterns", {}), of a dict
_extract_special_patterns(data) ==
    IF HasKey(data.v, SPECIAL_PATTERNS) THEN Lookup(data.v, SPECIAL_PATTERNS) ELSE Obj(<<>>)

\* The constructor raises: the file does not load; the document has no .get
\* (it is no dict); the keyword mapping has no .items() (it is no dict); one
\* of its values is unhashable or has no len() (it is no string); the special
\* patterns have no .items(); one of their keys does not compile.
ConstructorRaises(doc) ==
    \/ doc.t = "unreadable"
    \/ doc.t # "obj"
    \/ LET m == _extract_keyword_mappings(doc)
           sp == _extract_special_patterns(doc)
       IN  \/ m.t # "obj"
           \/ \E i \in 1..Len(m.v) : m.v[i][2].t # "str"
           \/ sp.t # "obj"
           \/ \E i \in 1..Len(sp.v) : ~RegexCompiles(sp.v[i][1])

\* what the constructor prints to sys.stderr
ConstructorWarnings(doc) ==
    IF doc.t # "unreadable" /\ ~IsStructured(doc) THEN <<LEGACY_WARNING>> ELSE <<>>

\* self.mapping of a document the constructor accepts: keyword and value texts
MappingOf(doc) ==
    LET m == _extract_keyword_mappings(doc).v
    IN  [i \in 1..Len(m) |-> <<m[i][1], m[i][2].v>>]

\* Transpiler(mapping_file), doc what the file holds.  When the constructor
\* raises, the caller gets no engine: only the document it had loaded is kept
\* here, to tell which document failed.
Construct(doc) ==
    /\ engine = "none"
    /\ mapping_data' = (IF doc.t = "unreadable" THEN NoDocument ELSE doc)
    /\ stderr' = ConstructorWarnings(doc)
    /\ IF ConstructorRaises(doc)
       THEN /\ engine' = "failed"
            /\ UNCHANGED <<mapping, reverse_mapping, special_patterns,
                           sorted_keywords, sorted_reverse_keywords>>
       ELSE /\ engine' = "ok"
            /\ mapping' = MappingOf(doc)
            /\ special_patterns' = _extract_special_patterns(doc).v
            /\ reverse_mapping' = ReverseMapping(MappingOf(doc))
            /\ sorted_keywords' = SortedByLenDesc(Keys(MappingOf(doc)))
            /\ sorted_reverse_keywords' = SortedByLenDesc(Keys(ReverseMapping(MappingOf(doc))))
    /\ UNCHANGED <<op, pc, source, origin, hist, prev, result, parts, status>>
    /\ UNCHANGED repl_vars

-----------------------------------------------------------------------------
(* Transpiler.to_python and Transpiler.from_python, stage by stage *)

\* the number of transforms a chain of calls may hold
MaxChain == 2

Enter(name, text, first) ==
    /\ engine = "ok"
    /\ pc \in {"idle", "done"}
    /\ op' = name
    /\ pc' = first
    /\ source' = text
    /\ result' = text
    /\ prev' = text
    /\ parts' = <<>>
    /\ status' = "ok"
    /\ UNCHANGED tables
    /\ UNCHANGED repl_vars

\* transpiler.to_python(text)
CallToPython(text) ==
    /\ pc = "idle"
    /\ Enter("to_python", text, "special")
    /\ origin' = text
    /\ hist' = <<"to_python">>

\* transpiler.from_python(text)
CallFromPython(text) ==
    /\ pc = "idle"
    /\ Enter("from_python", text, "rkw_split")
    /\ origin' = text
    /\ hist' = <<"from_python">>

\* transpiler.to_python(r), r the text the call before returned
FeedToPython ==
    /\ pc = "done" /\ status = "ok" /\ Len(hist) < MaxChain
    /\ Enter("to_python", result, "special")
    /\ hist' = Append(hist, "to_python")
    /\ UNCHANGED origin

\* transpiler.from_python(r), r the text the call before returned
FeedFromPython ==
    /\ pc = "done" /\ status = "ok" /\ Len(hist) < MaxChain
    /\ Enter("from_python", result, "rkw_split")
    /\ hist' = Append(hist, "from_python")
    /\ UNCHANGED origin

\* a stage that empties the list of keywords it has walked
StageConsumingKeywords(out, next) ==
    /\ prev' = result
    /\ IF out = Raised
       THEN /\ status' = "raised"
            /\ pc' = "done"
            /\ result' = Raised
       ELSE /\ status' = status
            /\ pc' = next
            /\ result' = out
    /\ sorted_keywords' = <<>>
    /\ UNCHANGED <<op, source, origin, hist>>
    /\ UNCHANGED <<engine, mapping_data, mapping, reverse_mapping, special_patterns,
                   sorted_reverse_keywords, stderr>>
    /\ UNCHANGED repl_vars

\* a stage leaves `out` in result and goes on to `next`, or the call raises
Stage(out, next) ==
    /\ prev' = result
    /\ IF out = Raised
       THEN /\ status' = "raised"
            /\ pc' = "done"
            /\ result' = Raised
       ELSE /\ status' = status
            /\ pc' = next
            /\ result' = out
    /\ UNCHANGED <<op, source, origin, hist>>
    /\ UNCHANGED tables
    /\ UNCHANGED repl_vars

\* result = self._apply_special_patterns(result)
ApplySpecialPatterns ==
    /\ pc = "special"
    /\ Stage(_apply_special_patterns(special_patterns, result), "kw_split")
    /\ UNCHANGED parts

\* parts = self._split_by_strings(code), at its three call sites
SplitByStrings ==
    /\ pc \in {"kw_split", "rkw_split", "rsp_split"}
    /\ parts' = _split_by_strings(result)
    /\ pc' = CASE pc = "kw_split" -> "kw_replace"
               [] pc = "rkw_split" -> "rkw_replace"
               [] pc = "rsp_split" -> "rsp_replace"
    /\ UNCHANGED <<op, source, origin, hist, prev, result, status>>
    /\ UNCHANGED tables
    /\ UNCHANGED repl_vars

\* the loop of a stage over parts and its ''.join(parts)
Rejoin(new_parts, next) ==
    /\ parts' = new_parts
    /\ Stage(IF AnyRaised(new_parts) THEN Raised ELSE Join(new_parts), next)

\* _apply_keyword_replacements: the loop over the non-string parts and the join
ReplaceKeywords ==
    /\ pc = "kw_replace"
    /\ Rejoin(ReplaceInCodeParts(parts, sorted_keywords, mapping), "syntax")

\* result = self._fix_syntax_issues(result)
FixSyntaxIssues ==
    /\ pc = "syntax"
    /\ Stage(_fix_syntax_issues(result), "indent")
    /\ UNCHANGED parts

\* result = self._fix_indentation(result); return result
FixIndentation ==
    /\ pc = "indent"
    /\ Stage(_fix_indentation(result), "done")
    /\ UNCHANGED parts

\* from_python: the loop over the non-string parts with the reverse tables and the join
ReverseKeywords ==
    /\ pc = "rkw_replace"
    /\ Rejoin(ReplaceInCodeParts(parts, sorted_reverse_keywords, reverse_mapping), "rsp_split")

\* _apply_reverse_special_patterns: the loop over the non-string parts and the
\* join; return result
ReverseSpecialPatterns ==
    /\ pc = "rsp_replace"
    /\ Rejoin(ReverseInCodeParts(parts, special_patterns), "done")

\* the caller is done with the text a call returned, or with its exception;
\* the locals of the call are gone
Return ==
    /\ pc = "done"
    /\ pc' = "idle"
    /\ op' = "none"
    /\ source' = <<>>
    /\ origin' = <<>>
    /\ hist' = <<>>
    /\ prev' = <<>>
    /\ result' = <<>>
    /\ parts' = <<>>
    /\ status' = "ok"
    /\ UNCHANGED tables
    /\ UNCHANGED repl_vars

Init ==
    /\ engine = "none"
    /\ mapping_data = NoDocument
    /\ mapping = <<>>
    /\ reverse_mapping = <<>>
    /\ special_patterns = <<>>
    /\ sorted_keywords = <<>>
    /\ sorted_reverse_keywords = <<>>
    /\ stderr = <<>>
    /\ op = "none"
    /\ pc = "idle"
    /\ source = <<>>
    /\ origin = <<>>
    /\ hist = <<>>
    /\ prev = <<>>
    /\ result = <<>>
    /\ parts = <<>>
    /\ status = "ok"
    /\ repl_pc = "none"
    /\ indent_level = 0
    /\ buffer = <<>>
    /\ input_line = <<>>
    /\ lines_read = 0
    /\ code_to_execute = <<>>
    /\ python_code = <<>>

\* the stages of to_python
ToPythonStep ==
    \/ ApplySpecialPatterns
    \/ SplitByStrings
    \/ ReplaceKeywords
    \/ FixSyntaxIssues
    \/ FixIndentation

\* the stages of both transforms
TransformStep ==
    \/ ToPythonStep
    \/ ReverseKeywords
    \/ ReverseSpecialPatterns

\* every concatenation of at most n of the chunks V
RECURSIVE ChunkTexts(_, _)
ChunkTexts(V, n) ==
    IF n = 0 THEN {<<>>}
    ELSE LET T == ChunkTexts(V, n - 1) IN T \cup {t \o v : t \in T, v \in V}

-----------------------------------------------------------------------------
(* Configuration documents *)

\* {"keywords": {"rizz": "return"}}
RizzDocument ==
    Obj(<< <<KEYWORDS, Obj(<< <<<<"r","i","z","z">>, Str(<<"r","e","t","u","r","n">>)>> >>)>> >>)

-----------------------------------------------------------------------------
(* The String-Literal Splitter, over the texts of quotes, backslashes and one
   other character *)

MaxSplitLen == 5

SplitTexts == ChunkTexts({<<"'">>, <<"\"">>, <<"\\">>, <<"a">>}, MaxSplitLen)

NextSplit ==
    \/ Construct(RizzDocument)
    \/ \E text \in SplitTexts : CallToPython(text)
    \/ ToPythonStep
    \/ Return

SpecSplit == Init /\ [][NextSplit]_vars

\* a complete quoted run: it opens and closes with the same quote character
IsQuotedRun(t) == Len(t) >= 2 /\ t[1] \in {"'", "\""} /\ t[Len(t)] = t[1]

\* C1: the parts _split_by_strings returns, concatenated in order, are the
\* text it was given; they alternate, beginning and ending with a non-string
\* part, and each string part is a quoted run.
SplitIsLossless ==
    pc = "kw_replace" =>
        /\ Join(parts) = result
        /\ Len(parts) % 2 = 1
        /\ \A i \in 1..Len(parts) : ~IsCodeIndex(i) => IsQuotedRun(parts[i])

\* a text with a literal that holds an escaped quote, and text after it, has
\* been split
SplitWitness ==
    /\ pc = "kw_replace"
    /\ Len(parts) = 3
    /\ parts[2] = <<"'", "\\", "'", "'">>
    /\ parts[3] = <<"a">>

-----------------------------------------------------------------------------
(* Keyword substitution and string literals: the spec's keyword rizz -> return, both
   transforms *)

RIZZ == <<"r","i","z","z">>
RETURN == <<"r","e","t","u","r","n">>
QUOTE == <<"\"">>
APOSTROPHE == <<"'">>
SPACE == <<" ">>
X_EQ_SP == <<"x"," ","="," ">>

MaxLiteralChunks == 4

LiteralTexts ==
    ChunkTexts({RIZZ, RETURN, QUOTE, APOSTROPHE, SPACE, X_EQ_SP}, MaxLiteralChunks)

NextLiteral ==
    \/ Construct(RizzDocument)
    \/ \E text \in LiteralTexts : CallToPython(text)
    \/ \E text \in LiteralTexts : CallFromPython(text)
    \/ TransformStep
    \/ Return

SpecLiteral == Init /\ [][NextLiteral]_vars

\* the length of the run of word characters a text begins with
RECURSIVE WordRun(_)
WordRun(t) == IF t # <<>> /\ IsWord(Head(t)) THEN 1 + WordRun(Tail(t)) ELSE 0

\* a text with every whole word that is k rewritten to v
RECURSIVE MapWords(_, _, _)
MapWords(t, k, v) ==
    IF t = <<>> THEN <<>>
    ELSE IF ~IsWord(Head(t)) THEN <<Head(t)>> \o MapWords(Tail(t), k, v)
    ELSE LET n == WordRun(t)
             w == SubSeq(t, 1, n)
         IN  (IF w = k THEN v ELSE w) \o MapWords(SubSeq(t, n + 1, Len(t)), k, v)

\* the keyword loop of either transform leaves every string part as it was
\* and rewrites the keyword in every other part (rizz to return forward,
\* return to rizz in reverse)
LiteralsPassThrough ==
    pc \in {"kw_replace", "rkw_replace"} =>
        /\ Len(parts') = Len(parts)
        /\ \A i \in 1..Len(parts) :
              parts'[i] = IF ~IsCodeIndex(i) THEN parts[i]
                          ELSE IF pc = "kw_replace" THEN MapWords(parts[i], RIZZ, RETURN)
                          ELSE MapWords(parts[i], RETURN, RIZZ)

\* to_python keeps the quoted rizz of x = "rizz" and rewrites the one outside
LiteralExample ==
    pc = "done" /\ op = "to_python" =>
        /\ source = X_EQ_SP \o QUOTE \o RIZZ \o QUOTE => result = source
        /\ source = RIZZ \o SPACE \o QUOTE \o RIZZ \o QUOTE
              => result = RETURN \o SPACE \o QUOTE \o RIZZ \o QUOTE

\* C2: in keyword substitution, forward and reverse, every LITERAL segment
\* passes through unmodified while the keyword occurrences of the CODE
\* segments are replaced; with rizz -> return, x = "rizz" keeps its quoted
\* rizz and a rizz outside quotes becomes return.
LiteralImmunity == [][LiteralsPassThrough]_vars /\ []LiteralExample

\* the forward keyword loop has rewritten a rizz outside quotes and met one inside
LiteralWitness ==
    /\ pc = "syntax"
    /\ parts = <<RETURN, QUOTE \o RIZZ \o QUOTE, <<>>>>
    /\ source = RIZZ \o QUOTE \o RIZZ \o QUOTE

-----------------------------------------------------------------------------
(* An engine of the default mapping, both transforms and chains of them *)

NO_CAP == <<"n","o","_","c","a","p">>
CAP == <<"c","a","p">>
TRUE_ == <<"T","r","u","e">>
FALSE_ == <<"F","a","l","s","e">>
SLIDE == <<"s","l","i","d","e">>
INTO == <<"i","n","t","o">>
OS == <<"o","s">>
IMPORT == <<"i","m","p","o","r","t">>
SLIDE_INTO_PATTERN == <<"s","l","i","d","e","\\","s","+","i","n","t","o","\\","s","+","(","\\","w","+",")">>
IMPORT_TEMPLATE == <<"i","m","p","o","r","t"," ","\\","1">>

\* an excerpt of the document create_default_mapping writes: two of its
\* keywords, in their order, and one of its special patterns
DefaultExcerpt ==
    Obj(<< <<KEYWORDS, Obj(<< <<NO_CAP, Str(TRUE_)>>, <<CAP, Str(FALSE_)>> >>)>>,
           <<SPECIAL_PATTERNS, Obj(<< <<SLIDE_INTO_PATTERN, Str(IMPORT_TEMPLATE)>> >>)>> >>)

MaxDefaultChunks == 3

DefaultTexts ==
    ChunkTexts({SLIDE, SPACE \o INTO \o SPACE, OS, IMPORT \o SPACE, NO_CAP}, MaxDefaultChunks)

Next ==
    \/ Construct(DefaultExcerpt)
    \/ \E text \in DefaultTexts : CallToPython(text)
    \/ \E text \in DefaultTexts : CallFromPython(text)
    \/ FeedToPython
    \/ FeedFromPython
    \/ TransformStep
    \/ Return

Spec == Init /\ [][Next]_vars

\* C3: to_python and from_python are total: no call on a constructed engine,
\* one of the default mapping's special patterns included, raises; each
\* returns a text.
TransformsAreTotal ==
    engine = "ok" /\ pc = "done" => status = "ok" /\ result # Raised

SLIDE_INTO_OS == SLIDE \o SPACE \o INTO \o SPACE \o OS

\* C7: for the special pattern slide\s+into\s+(\w+) -> import \1 and an
\* identifier no keyword touches, from_python(to_python(p)) is p: slide into
\* os becomes import os and that becomes slide into os again.
ReverseReconstructsPhrase ==
    (pc = "done" /\ hist = <<"to_python", "from_python">> /\ origin = SLIDE_INTO_OS)
        => (status = "ok" /\ source = IMPORT \o SPACE \o OS /\ result = origin)

-----------------------------------------------------------------------------
(* Engines whose keywords hold one another: cap inside no_cap and no-cap *)

NO == <<"n","o">>
HYPHEN == <<"-">>
UNDERSCORE == <<"_">>
NO_HYPHEN_CAP == <<"n","o","-","c","a","p">>

\* mapping files whose shorter keyword comes first in the file
CapDocument ==
    Obj(<< <<KEYWORDS, Obj(<< <<CAP, Str(FALSE_)>>, <<NO_CAP, Str(TRUE_)>> >>)>> >>)

HyphenDocument ==
    Obj(<< <<KEYWORDS, Obj(<< <<CAP, Str(FALSE_)>>, <<NO_HYPHEN_CAP, Str(TRUE_)>> >>)>> >>)

MaxCapChunks == 3

CapTexts ==
    ChunkTexts({NO_CAP, NO_HYPHEN_CAP, CAP, NO, HYPHEN, UNDERSCORE, SPACE}, MaxCapChunks)

NextCap ==
    \/ \E doc \in {CapDocument, HyphenDocument} : Construct(doc)
    \/ \E text \in CapTexts : CallToPython(text)
    \/ ToPythonStep
    \/ Return

SpecCap == Init /\ [][NextCap]_vars

\* s occurs in l
Occurs(s, l) == \E i \in 1..(Len(l) - Len(s) + 1) : SubSeq(l, i, i + Len(s) - 1) = s

\* C4: sorted_keywords holds the keywords of the mapping by non-increasing
\* length, and the keyword stage applies them in that order, so that a keyword
\* is replaced whole where a shorter keyword occurs inside it: alone, before
\* and after the shorter keyword; with cap -> False and no_cap -> True the
\* text no_cap becomes True.
LongestKeywordFirst ==
    engine = "ok" =>
        /\ \A i, j \in 1..Len(sorted_keywords) :
               i < j => Len(sorted_keywords[i]) >= Len(sorted_keywords[j])
        /\ Len(sorted_keywords) = Len(mapping)
        /\ {sorted_keywords[i] : i \in 1..Len(sorted_keywords)}
               = {mapping[i][1] : i \in 1..Len(mapping)}
        /\ pc = "syntax" =>
               \A a, b \in 1..Len(mapping) :
                   LET l == mapping[a][1]
                       s == mapping[b][1]
                   IN  (Len(s) < Len(l) /\ Occurs(s, l)) =>
                           /\ prev = l => result = mapping[a][2]
                           /\ prev = l \o SPACE \o s
                                  => result = mapping[a][2] \o SPACE \o mapping[b][2]
                           /\ prev = s \o SPACE \o l
                                  => result = mapping[b][2] \o SPACE \o mapping[a][2]
        /\ (pc = "done" /\ source = NO_CAP /\ HasKey(mapping, NO_CAP)) => result = TRUE_

\* no_cap has become True on an engine whose file lists cap before no_cap
LongestKeywordWitness ==
    /\ pc = "done"
    /\ source = NO_CAP
    /\ result = TRUE_
    /\ Keys(mapping) = <<CAP, NO_CAP>>
    /\ sorted_keywords = <<NO_CAP, CAP>>

-----------------------------------------------------------------------------
(* The forward special patterns, over texts of slide into phrases *)

\* the phrase up to its identifier, with one space and with two
SLIDE_INTO_SP == SLIDE \o SPACE \o INTO \o SPACE
SLIDE__INTO__SP == SLIDE \o SPACE \o SPACE \o INTO \o SPACE \o SPACE

MaxPatternChunks == 4

PatternTexts ==
    ChunkTexts({SLIDE_INTO_OS, SLIDE__INTO__SP, OS, SPACE, NO_CAP}, MaxPatternChunks)

NextPatterns ==
    \/ Construct(DefaultExcerpt)
    \/ \E text \in PatternTexts : CallToPython(text)
    \/ ToPythonStep
    \/ Return

SpecPatterns == Init /\ [][NextPatterns]_vars

IMPORT_SP == IMPORT \o SPACE

\* C5: the forward special-pattern stage replaces every match of
\* slide\s+into\s+(\w+) by import and the identifier the match captured: one
\* phrase or two, with one space or more inside, after and before other text;
\* a text without the word slide is left as it is; and to_python turns
\* slide into os into import os.
CaptureSubstitution ==
    /\ pc = "kw_split" =>
           /\ \A pre \in {<<>>, SPACE, OS \o SPACE} :
              \A ph \in {SLIDE_INTO_SP, SLIDE__INTO__SP} :
              \A id \in {OS, OS \o OS, NO_CAP} :
                  /\ \A post \in {<<>>, SPACE} :
                         prev = pre \o ph \o id \o post
                             => result = pre \o IMPORT_SP \o id \o post
                  /\ \A ph2 \in {SLIDE_INTO_SP, SLIDE__INTO__SP} :
                     \A id2 \in {OS, NO_CAP} :
                         prev = pre \o ph \o id \o SPACE \o ph2 \o id2
                             => result = pre \o IMPORT_SP \o id \o SPACE \o IMPORT_SP \o id2
           /\ ~Occurs(SLIDE, prev) => result = prev
    /\ (pc = "done" /\ source = SLIDE_INTO_OS) => result = IMPORT_SP \o OS

\* two phrases of one text have been replaced, each with its own identifier
CaptureWitness ==
    /\ pc = "kw_split"
    /\ prev = SLIDE_INTO_SP \o OS \o SPACE \o SLIDE__INTO__SP \o NO_CAP
    /\ result = IMPORT_SP \o OS \o SPACE \o IMPORT_SP \o NO_CAP

-----------------------------------------------------------------------------
(* from_python and then to_python, on an engine whose reverse mapping is one
   to one *)

GLIZZY == <<"g","l","i","z","z","y">>
LIST == <<"l","i","s","t">>

\* {"keywords": {"glizzy": "list", "rizz": "return"}}
GlizzyDocument ==
    Obj(<< <<KEYWORDS, Obj(<< <<GLIZZY, Str(LIST)>>, <<RIZZ, Str(RETURN)>> >>)>> >>)

MaxRoundChunks == 3

RoundTexts == ChunkTexts({LIST, RETURN, SPACE}, MaxRoundChunks)

NextRound ==
    \/ Construct(GlizzyDocument)
    \/ \E text \in RoundTexts : CallFromPython(text)
    \/ FeedToPython
    \/ TransformStep
    \/ Return

SpecRound == Init /\ [][NextRound]_vars

\* the texts of one or two Python words of the mapping, a space between them
CanonicalTokenTexts ==
    LET tokens == {mapping[i][2] : i \in 1..Len(mapping)}
    IN  tokens \cup {a \o SPACE \o b : a \in tokens, b \in tokens}

\* C6: on an engine whose reverse mapping is one to one, every text x made of
\* the mapping's Python words only, with no string literal in it, comes back
\* from to_python(from_python(x)) as x.
CanonicalRoundTrip ==
    (/\ pc = "done"
     /\ hist = <<"from_python", "to_python">>
     /\ Len(reverse_mapping) = Len(mapping)
     /\ origin \in CanonicalTokenTexts)
        => (status = "ok" /\ result = origin)

-----------------------------------------------------------------------------
(* The syntax fix-ups and the indentation, on an engine without keywords:
   to_python is then the two of them, and to_python of its own output is
   their second pass *)

\* {"keywords": {}}
EmptyDocument == Obj(<< <<KEYWORDS, Obj(<<>>)>> >>)

LI == <<"l","i">>
ST == <<"s","t">>

MaxNormalizeChunks == 4

NormalizeTexts ==
    ChunkTexts({AT_PROPERTY, SPACE, LIST_SP, DICT_SP, LI, ST}, MaxNormalizeChunks)

NextNormalize ==
    \/ Construct(EmptyDocument)
    \/ \E text \in NormalizeTexts : CallToPython(text)
    \/ FeedToPython
    \/ ToPythonStep
    \/ Return

SpecNormalize == Init /\ [][NextNormalize]_vars

\* C8: _fix_syntax_issues followed by _fix_indentation is idempotent: applied
\* to its own output (the second of two to_python calls on an engine with no
\* keyword and no special pattern), it returns that output unchanged.
NormalizerIsIdempotent ==
    (/\ pc = "done"
     /\ hist = <<"to_python", "to_python">>
     /\ mapping = <<>>
     /\ special_patterns = <<>>)
        => (status = "ok" /\ result = source)

-----------------------------------------------------------------------------
(* The indentation, over lines of spaces, tabs and one other character *)

TAB == <<"\t">>
NEWLINE == <<"\n">>
LETTER_X == <<"x">>

MaxIndentChunks == 5

IndentTexts == ChunkTexts({SPACE, TAB, NEWLINE, LETTER_X}, MaxIndentChunks)

NextIndent ==
    \/ Construct(EmptyDocument)
    \/ \E text \in IndentTexts : CallToPython(text)
    \/ ToPythonStep
    \/ Return

SpecIndent == Init /\ [][NextIndent]_vars

\* the number of space characters a line starts with
RECURSIVE LeadingSpaces(_)
LeadingSpaces(line) ==
    IF line # <<>> /\ Head(line) = " " THEN 1 + LeadingSpaces(Tail(line)) ELSE 0

\* C9: _fix_indentation keeps the number and the order of the lines, and
\* re-emits each line as n // 4 repetitions of four spaces, n the number of
\* space characters the line starts with, followed by the line's trimmed
\* content.
IndentationCountsSpaces ==
    (pc = "done" /\ op = "to_python" /\ status = "ok") =>
        LET inl == SplitLines(prev)
            outl == SplitLines(result)
        IN  /\ Len(outl) = Len(inl)
            /\ \A i \in 1..Len(inl) :
                   outl[i] = Repeat(<<" ", " ", " ", " ">>, LeadingSpaces(inl[i]) \div 4)
                                 \o LStrip(inl[i])

-----------------------------------------------------------------------------
(* Mapping files of the legacy format: the document is the keyword mapping *)

\* {"rizz": "return"}
LegacyRizzDocument == Obj(<< <<RIZZ, Str(RETURN)>> >>)

\* {"rizz": "return", "special_patterns": "x"}: a keyword named special_patterns
LegacyNamedDocument ==
    Obj(<< <<RIZZ, Str(RETURN)>>, <<SPECIAL_PATTERNS, Str(LETTER_X)>> >>)

\* {"keywords": {"rizz": "return", "special_patterns": "x"}}
StructuredNamedDocument == Obj(<< <<KEYWORDS, LegacyNamedDocument>> >>)

LegacyDocuments ==
    {LegacyRizzDocument, RizzDocument, LegacyNamedDocument, StructuredNamedDocument}

MaxLegacyChunks == 2

LegacyTexts == ChunkTexts({RIZZ, RETURN, SPACE, SPECIAL_PATTERNS, LETTER_X}, MaxLegacyChunks)

NextLegacy ==
    \/ \E doc \in LegacyDocuments : Construct(doc)
    \/ \E text \in LegacyTexts : CallToPython(text)
    \/ \E text \in LegacyTexts : CallFromPython(text)
    \/ TransformStep
    \/ Return

SpecLegacy == Init /\ [][NextLegacy]_vars

\* the document is a mapping of keywords to words and has no key "keywords"
IsBareMapping(data) ==
    /\ data.t = "obj"
    /\ ~HasKey(data.v, KEYWORDS)
    /\ \A i \in 1..Len(data.v) : data.v[i][2].t = "str"

\* C10: a document that is a bare mapping with no key "keywords" is accepted,
\* with the warning on stderr, and gives the engine that the structured
\* document {"keywords": that mapping} gives: the same keyword table, the
\* tables derived from it, and no special pattern.
LegacyIsStructured ==
    (engine # "none" /\ IsBareMapping(mapping_data)) =>
        /\ engine = "ok"
        /\ stderr = <<LEGACY_WARNING>>
        /\ mapping = MappingOf(Obj(<< <<KEYWORDS, mapping_data>> >>))
        /\ reverse_mapping = ReverseMapping(mapping)
        /\ sorted_keywords = SortedByLenDesc(Keys(mapping))
        /\ sorted_reverse_keywords = SortedByLenDesc(Keys(reverse_mapping))
        /\ special_patterns = <<>>

-----------------------------------------------------------------------------
(* Transpiler(mapping_file) on files that do not load, on documents that are
   no mapping, and on documents whose special patterns are no texts *)

LETTER_A == <<"a">>

\* the JSON document 5
NumberDocument == [t |-> "num"]

\* {"keywords": {"rizz": "return"}, "special_patterns": {"a": 5}}
NumberTemplateDocument ==
    Obj(<< <<KEYWORDS, Obj(<< <<RIZZ, Str(RETURN)>> >>)>>,
           <<SPECIAL_PATTERNS, Obj(<< <<LETTER_A, NumberDocument>> >>)>> >>)

ConstructDocuments == {Unreadable, NumberDocument, RizzDocument, NumberTemplateDocument}

MaxConstructChunks == 2

ConstructTexts == ChunkTexts({RIZZ, SPACE, LETTER_A}, MaxConstructChunks)

NextConstruct ==
    \/ \E doc \in ConstructDocuments : Construct(doc)
    \/ \E text \in ConstructTexts : CallToPython(text)
    \/ \E text \in ConstructTexts : CallFromPython(text)
    \/ TransformStep
    \/ Return

SpecConstruct == Init /\ [][NextConstruct]_vars

\* C11: a file that cannot be read or parsed makes the constructor fail at
\* once; a failed construction leaves no engine, with no table set and no
\* transform callable; and on an engine the constructor returned, no transform
\* call raises because of the document.
ConstructionFailsFast ==
    /\ (engine # "none" /\ mapping_data = NoDocument) => engine = "failed"
    /\ engine = "failed" =>
           /\ mapping = <<>> /\ reverse_mapping = <<>> /\ special_patterns = <<>>
           /\ sorted_keywords = <<>> /\ sorted_reverse_keywords = <<>>
           /\ pc = "idle" /\ op = "none"
    /\ (engine = "ok" /\ pc = "done") => status = "ok"

-----------------------------------------------------------------------------
(* to_python as a whole, over texts with string literals that hold what the
   stages look for *)

MaxWholeChunks == 4

WholeTexts == ChunkTexts({QUOTE, SLIDE_INTO_OS, LIST_SP, NO_CAP, SPACE}, MaxWholeChunks)

NextWhole ==
    \/ Construct(DefaultExcerpt)
    \/ \E text \in WholeTexts : CallToPython(text)
    \/ ToPythonStep
    \/ Return

SpecWhole == Init /\ [][NextWhole]_vars

\* C12: every quoted string literal of the text given to to_python appears,
\* unchanged, in the text to_python returns.
LiteralsSurviveToPython ==
    (pc = "done" /\ op = "to_python" /\ status = "ok") =>
        LET literals == _split_by_strings(source)
        IN  \A i \in 1..Len(literals) : ~IsCodeIndex(i) => Occurs(literals[i], result)

-----------------------------------------------------------------------------
(* The keyword stage over identifiers that hold a keyword *)

ITAL == <<"i","t","a","l">>
NO_ == <<"n","o","_">>

\* {"keywords": {"cap": "False", "rizz": "return"}}
CapRizzDocument ==
    Obj(<< <<KEYWORDS, Obj(<< <<CAP, Str(FALSE_)>>, <<RIZZ, Str(RETURN)>> >>)>> >>)

MaxBoundaryChunks == 4

BoundaryTexts == ChunkTexts({CAP, ITAL, NO_, SPACE, HYPHEN, RIZZ}, MaxBoundaryChunks)

NextBoundary ==
    \/ Construct(CapRizzDocument)
    \/ \E text \in BoundaryTexts : CallToPython(text)
    \/ ToPythonStep
    \/ Return

SpecBoundary == Init /\ [][NextBoundary]_vars

\* C13: the keyword stage rewrites a keyword exactly where it stands as a whole
\* word, every such occurrence and nothing else: cap inside capital or no_cap
\* stays, and a text in which no keyword stands as a whole word is returned as
\* it was.
WordBoundaryReplacement ==
    pc = "syntax" =>
        /\ result = MapWords(MapWords(prev, CAP, FALSE_), RIZZ, RETURN)
        /\ prev \in {CAP \o ITAL, NO_ \o CAP, RIZZ \o CAP, CAP \o RIZZ \o SPACE} => result = prev
        /\ prev = NO_ \o CAP \o SPACE \o CAP => result = NO_ \o CAP \o SPACE \o FALSE_

\* the stage has kept capital and rewritten the cap that stands alone after a hyphen
WordBoundaryWitness ==
    /\ pc = "syntax"
    /\ prev = CAP \o ITAL \o HYPHEN \o CAP
    /\ result = CAP \o ITAL \o HYPHEN \o FALSE_

-----------------------------------------------------------------------------
(* The keyword stages on a table in which the word of one keyword is another
   keyword *)

\* {"keywords": {"rizz": "cap", "cap": "False"}}
ChainDocument ==
    Obj(<< <<KEYWORDS, Obj(<< <<RIZZ, Str(CAP)>>, <<CAP, Str(FALSE_)>> >>)>> >>)

MaxRewriteChunks == 3

RewriteTexts == ChunkTexts({RIZZ, CAP, FALSE_, SPACE}, MaxRewriteChunks)

NextRewrite ==
    \/ Construct(ChainDocument)
    \/ \E text \in RewriteTexts : CallToPython(text)
    \/ \E text \in RewriteTexts : CallFromPython(text)
    \/ TransformStep
    \/ Return

SpecRewrite == Init /\ [][NextRewrite]_vars

\* a text with every whole word that is a key of d rewritten, once, to its value
RECURSIVE MapEachWord(_, _)
MapEachWord(t, d) ==
    IF t = <<>> THEN <<>>
    ELSE IF ~IsWord(Head(t)) THEN <<Head(t)>> \o MapEachWord(Tail(t), d)
    ELSE LET n == WordRun(t)
             w == SubSeq(t, 1, n)
         IN  (IF HasKey(d, w) THEN Lookup(d, w) ELSE w)
                 \o MapEachWord(SubSeq(t, n + 1, Len(t)), d)

\* C14: a keyword stage rewrites each keyword occurrence of its input to that
\* keyword's own value and rewrites nothing that a replacement introduced:
\* forward with the mapping, in reverse with the reverse mapping.
ReplacedOnce ==
    /\ pc = "syntax" => result = MapEachWord(prev, mapping)
    /\ (pc = "rsp_split" /\ op = "from_python") => result = MapEachWord(prev, reverse_mapping)

-----------------------------------------------------------------------------
(* The order of the stages, on an engine where each stage rewrites what the
   stage before it wrote *)

SPILL == <<"s","p","i","l","l">>
TEA == <<"t","e","a">>
FOUR_SPACES == SPACE \o SPACE \o SPACE \o SPACE

\* {"keywords": {"glizzy": "list"},
\*  "special_patterns": {"spill": "tea", "tea": "glizzy"}}
OrderDocument ==
    Obj(<< <<KEYWORDS, Obj(<< <<GLIZZY, Str(LIST)>> >>)>>,
           <<SPECIAL_PATTERNS, Obj(<< <<SPILL, Str(TEA)>>, <<TEA, Str(GLIZZY)>> >>)>> >>)

MaxOrderChunks == 3

OrderTexts == ChunkTexts({SPILL, TEA, GLIZZY, LIST, FOUR_SPACES, LETTER_X}, MaxOrderChunks)

NextOrder ==
    \/ Construct(OrderDocument)
    \/ \E text \in OrderTexts : CallToPython(text)
    \/ \E text \in OrderTexts : CallFromPython(text)
    \/ TransformStep
    \/ Return

SpecOrder == Init /\ [][NextOrder]_vars

ToPythonOrder == <<"special", "kw_split", "kw_replace", "syntax", "indent", "done">>
FromPythonOrder == <<"rkw_split", "rkw_replace", "rsp_split", "rsp_replace", "done">>

\* q comes right after p in order
FollowsIn(order, p, q) == \E i \in 1..(Len(order) - 1) : order[i] = p /\ order[i + 1] = q

\* a step inside a call goes to the next stage of the transform, or the call raises
OrderStep ==
    (pc \notin {"idle", "done"} /\ pc' # pc) =>
        \/ status' = "raised" /\ pc' = "done"
        \/ op = "to_python" /\ FollowsIn(ToPythonOrder, pc, pc')
        \/ op = "from_python" /\ FollowsIn(FromPythonOrder, pc, pc')

\* a keyword stage with the tables given: split, replace in the code parts, join
KeywordStage(text, keys, table) ==
    LET replaced == ReplaceInCodeParts(_split_by_strings(text), keys, table)
    IN  IF AnyRaised(replaced) THEN Raised ELSE Join(replaced)

\* what a finished call returned is the stages composed in their order
OrderOfStages ==
    (pc = "done" /\ status = "ok") =>
        /\ op = "to_python" =>
               /\ result = _fix_indentation(_fix_syntax_issues(
                               KeywordStage(_apply_special_patterns(special_patterns, source),
                                            sorted_keywords, mapping)))
               /\ source = SPILL \o FOUR_SPACES \o LETTER_X => result = LETTER_X
               /\ source = SPILL => result = LIST
        /\ op = "from_python" =>
               /\ result = Join(ReverseInCodeParts(
                               _split_by_strings(KeywordStage(source, sorted_reverse_keywords,
                                                              reverse_mapping)),
                               special_patterns))
               /\ source = LIST => result = TEA

\* C15: to_python runs special patterns, keyword substitution, syntax fix-ups
\* and indentation in that order, each on the output of the one before, the
\* special patterns in the order of the table; from_python runs the reverse
\* keyword substitution first and the reverse special patterns last.
StagesRunInOrder == [][OrderStep]_vars /\ []OrderOfStages

\* spill, four spaces and x went through all four stages: spill became tea,
\* then glizzy, then list, "list " was deleted and the indentation truncated
OrderWitness ==
    /\ pc = "done" /\ op = "to_python"
    /\ source = SPILL \o FOUR_SPACES \o LETTER_X
    /\ result = LETTER_X

-----------------------------------------------------------------------------
(* The reverse special patterns whose replacement has no group reference *)

SPILL_THE_TEA_PATTERN == <<"s","p","i","l","l","\\","s","+","t","h","e","\\","s","+","t","e","a">>
RAISE_EXCEPTION == <<"r","a","i","s","e"," ","E","x","c","e","p","t","i","o","n">>

\* {"keywords": {}, "special_patterns": {"spill": "tea"}}
SpillDocument ==
    Obj(<< <<KEYWORDS, Obj(<<>>)>>,
           <<SPECIAL_PATTERNS, Obj(<< <<SPILL, Str(TEA)>> >>)>> >>)

\* {"keywords": {}, "special_patterns": {"spill\\s+the\\s+tea": "raise Exception"}},
\* a pattern of the default mapping
SpillTheTeaDocument ==
    Obj(<< <<KEYWORDS, Obj(<<>>)>>,
           <<SPECIAL_PATTERNS, Obj(<< <<SPILL_THE_TEA_PATTERN, Str(RAISE_EXCEPTION)>> >>)>> >>)

MaxSwapChunks == 3

SwapTexts == ChunkTexts({RAISE_EXCEPTION, TEA, QUOTE, SPACE, LETTER_X}, MaxSwapChunks)

\* the stages of from_python
FromPythonStep ==
    \/ SplitByStrings
    \/ ReverseKeywords
    \/ ReverseSpecialPatterns

NextSwap ==
    \/ \E doc \in {SpillDocument, SpillTheTeaDocument} : Construct(doc)
    \/ \E text \in SwapTexts : CallFromPython(text)
    \/ FromPythonStep
    \/ Return

SpecSwap == Init /\ [][NextSwap]_vars

\* the reverse special stage, for the one pattern of the engine, whose
\* replacement has no group reference: every whole-word occurrence of the
\* replacement text in a code part becomes the source text of the pattern as
\* it is written, the string parts stay, and the stage does not raise
SwapStep ==
    (pc = "rsp_replace" /\ Len(special_patterns) = 1) =>
        /\ status' = "ok"
        /\ Len(parts') = Len(parts)
        /\ \A i \in 1..Len(parts) :
               parts'[i] = IF IsCodeIndex(i)
                           THEN SubWordFrom(parts[i], 1, special_patterns[1][2].v,
                                            special_patterns[1][1])
                           ELSE parts[i]

\* C16: in the reverse special-pattern stage, for a pattern whose template has
\* no capture group, every word-boundary-delimited occurrence of the template
\* text in a CODE segment is replaced by the pattern's source text literally,
\* and LITERAL segments are untouched.
DirectSwap == [][SwapStep]_vars

-----------------------------------------------------------------------------
(* An engine whose keywords share their Python words *)

DOWN_BAD == <<"d","o","w","n","_","b","a","d">>
UP_GOOD == <<"u","p","_","g","o","o","d">>

\* {"keywords": {"no_cap": "True", "cap": "False", "down_bad": "False",
\*               "up_good": "True"}}, in the order of the default mapping
SharedDocument ==
    Obj(<< <<KEYWORDS, Obj(<< <<NO_CAP, Str(TRUE_)>>, <<CAP, Str(FALSE_)>>,
                              <<DOWN_BAD, Str(FALSE_)>>, <<UP_GOOD, Str(TRUE_)>> >>)>> >>)

MaxSharedChunks == 3

SharedTexts == ChunkTexts({TRUE_, FALSE_, SPACE, NO_CAP, CAP}, MaxSharedChunks)

NextShared ==
    \/ Construct(SharedDocument)
    \/ \E text \in SharedTexts : CallFromPython(text)
    \/ FromPythonStep
    \/ Return

SpecShared == Init /\ [][NextShared]_vars

\* C17: the reverse mapping holds one entry for each Python word of the
\* mapping, and it is the keyword that the mapping lists last for that word
\* (True -> up_good, False -> down_bad); from_python rewrites the word to that
\* keyword.
LastKeywordWins ==
    engine = "ok" =>
        /\ \A i, j \in 1..Len(reverse_mapping) :
               reverse_mapping[i][1] = reverse_mapping[j][1] => i = j
        /\ {reverse_mapping[i][1] : i \in 1..Len(reverse_mapping)}
               = {mapping[i][2] : i \in 1..Len(mapping)}
        /\ \A i \in 1..Len(reverse_mapping) :
               \E a \in 1..Len(mapping) :
                   /\ mapping[a] = <<reverse_mapping[i][2], reverse_mapping[i][1]>>
                   /\ \A b \in (a + 1)..Len(mapping) : mapping[b][2] # mapping[a][2]
        /\ (pc = "done" /\ source = TRUE_) => result = UP_GOOD
        /\ (pc = "done" /\ source = FALSE_ \o SPACE \o TRUE_)
               => result = DOWN_BAD \o SPACE \o UP_GOOD

\* from_python has rewritten False and True to the keywords listed last for them
LastKeywordWitness ==
    /\ pc = "done" /\ op = "from_python"
    /\ source = FALSE_ \o SPACE \o TRUE_
    /\ result = DOWN_BAD \o SPACE \o UP_GOOD
    /\ Len(mapping) = 4 /\ Len(reverse_mapping) = 2

-----------------------------------------------------------------------------
(* Calls one after the other on one engine *)

MaxFrameChunks == 2

FrameTexts == ChunkTexts({SPILL, TEA, GLIZZY, LIST, SPACE, LETTER_X}, MaxFrameChunks)

NextFrame ==
    \/ Construct(OrderDocument)
    \/ \E text \in FrameTexts : CallToPython(text)
    \/ \E text \in FrameTexts : CallFromPython(text)
    \/ FeedToPython
    \/ FeedFromPython
    \/ TransformStep
    \/ Return

SpecFrame == Init /\ [][NextFrame]_vars

\* to_python(text) on the engine as it is
ToPythonOf(text) ==
    LET special == _apply_special_patterns(special_patterns, text)
        replaced == IF special = Raised THEN Raised
                    ELSE KeywordStage(special, sorted_keywords, mapping)
    IN  IF replaced = Raised THEN Raised
        ELSE _fix_indentation(_fix_syntax_issues(replaced))

\* from_python(text) on the engine as it is
FromPythonOf(text) ==
    LET replaced == KeywordStage(text, sorted_reverse_keywords, reverse_mapping)
        reversed == IF replaced = Raised THEN <<Raised>>
                    ELSE ReverseInCodeParts(_split_by_strings(replaced), special_patterns)
    IN  IF AnyRaised(reversed) THEN Raised ELSE Join(reversed)

\* what a call returned is what the transform makes of its text on the tables
\* of the constructor, whatever was called before
ResultOfTextOnly ==
    (pc = "done" /\ status = "ok") =>
        /\ mapping = MappingOf(mapping_data)
        /\ op = "to_python" => result = ToPythonOf(source)
        /\ op = "from_python" => result = FromPythonOf(source)

\* C18: once the engine is constructed, every step of every to_python and
\* from_python call leaves mapping, reverse_mapping, special_patterns and the
\* sorted keyword lists unchanged, and the text a call returns depends on its
\* input text only.
TablesAreFrozen == [][engine = "ok" => UNCHANGED tables]_vars /\ []ResultOfTextOnly

\* a second call on the engine has returned, with the tables of the constructor
FrozenWitness ==
    /\ pc = "done"
    /\ hist = <<"to_python", "from_python">>
    /\ origin = SPILL
    /\ source = LIST
    /\ result = TEA
    /\ sorted_keywords = <<GLIZZY>>
    /\ Len(special_patterns) = 2

-----------------------------------------------------------------------------
(* Transpiler.start_repl: the loop of the interactive driver *)

EXIT_CALL == <<"e","x","i","t","(",")">>
QUIT_CALL == <<"q","u","i","t","(",")">>
IF_X_COLON == <<"i","f"," ","x",":">>

\* line.endswith(':')
EndsWithColon(l) == l # <<>> /\ l[Len(l)] = ":"

\* line.strip()
RECURSIVE RStrip(_)
RStrip(l) == IF l # <<>> /\ IsSpace(l[Len(l)]) THEN RStrip(SubSeq(l, 1, Len(l) - 1)) ELSE l

Strip(l) == RStrip(LStrip(l))

\* the level when a line that ends with a colon does not open a block
LevelIgnoringColon(l, level) ==
    IF Strip(l) = <<>> /\ level > 0 THEN level - 1 ELSE level

\* the level when a blank line closes a block that was never opened
LevelBelowZero(l, level) ==
    IF EndsWithColon(l) THEN level + 1
    ELSE IF Strip(l) = <<>> THEN level - 1
    ELSE level

\* _process_repl_line: the indentation level after the line
NewIndentLevel(l, level) ==
    IF EndsWithColon(l) THEN level + 1
    ELSE IF Strip(l) = <<>> /\ level > 0 THEN level - 1
    ELSE level

\* self.start_repl(): the locals before the loop
StartRepl ==
    /\ engine = "ok" /\ pc = "idle" /\ repl_pc = "none"
    /\ repl_pc' = "prompt"
    /\ indent_level' = 0
    /\ buffer' = <<>>
    /\ UNCHANGED <<input_line, lines_read, code_to_execute, python_code>>
    /\ UNCHANGED tables
    /\ UNCHANGED <<op, pc, source, origin, hist, prev, result, parts, status>>

\* _execute_repl_buffer(buf, temp_module) and what follows it.  to_python may
\* raise, and eval / exec may raise what `except Exception` does not catch
\* (SystemExit): the exception leaves start_repl, whose locals are as they
\* were.  Otherwise the evaluator returns (an error it printed included) or a
\* KeyboardInterrupt of the evaluated code reaches the handler of the loop: in
\* both cases the buffer is empty and the level 0 at the next prompt.
_execute_repl_buffer(buf, leaves) ==
    LET code == JoinLines(buf)
        py == ToPythonOf(code)
    IN  /\ code_to_execute' = Append(code_to_execute, code)
        /\ python_code' = (IF py = Raised THEN python_code ELSE py)
        /\ IF py = Raised \/ leaves
           THEN /\ repl_pc' = "ended"
                /\ buffer' = buf
                /\ UNCHANGED indent_level
           ELSE /\ repl_pc' = "prompt"
                /\ buffer' = <<>>
                /\ indent_level' = 0

\* indent_level = self._process_repl_line(line, buffer, indent_level, temp_module)
_process_repl_line(l, leaves) ==
    LET buf == Append(buffer, l)
        level == NewIndentLevel(l, indent_level)
    IN  IF level = 0 /\ buf # <<>>
        THEN _execute_repl_buffer(buf, leaves)
        ELSE /\ buffer' = buf
             /\ indent_level' = level
             /\ repl_pc' = "prompt"
             /\ UNCHANGED <<code_to_execute, python_code>>

MaxLines == 4

\* one turn of the loop in which input() returns the line l
ReadLine(l, leaves) ==
    /\ repl_pc = "prompt" /\ lines_read < MaxLines
    /\ input_line' = l
    /\ lines_read' = lines_read + 1
    /\ IF Strip(l) \in {EXIT_CALL, QUIT_CALL} /\ indent_level = 0
       THEN /\ repl_pc' = "ended"
            /\ UNCHANGED <<indent_level, buffer, code_to_execute, python_code>>
       ELSE _process_repl_line(l, leaves)
    /\ UNCHANGED tables
    /\ UNCHANGED <<op, pc, source, origin, hist, prev, result, parts, status>>

\* one turn of the loop in which input() raises KeyboardInterrupt
KeyboardInterrupt ==
    /\ repl_pc = "prompt"
    /\ buffer' = <<>>
    /\ indent_level' = 0
    /\ UNCHANGED <<repl_pc, input_line, lines_read, code_to_execute, python_code>>
    /\ UNCHANGED tables
    /\ UNCHANGED <<op, pc, source, origin, hist, prev, result, parts, status>>

\* one turn of the loop in which input() raises EOFError
EndOfFile ==
    /\ repl_pc = "prompt"
    /\ repl_pc' = "ended"
    /\ UNCHANGED <<indent_level, buffer, input_line, lines_read, code_to_execute, python_code>>
    /\ UNCHANGED tables
    /\ UNCHANGED <<op, pc, source, origin, hist, prev, result, parts, status>>

ReplLines == {RIZZ, IF_X_COLON, <<>>, SPACE \o SPACE, EXIT_CALL, SPACE \o QUIT_CALL}

NextRepl ==
    \/ \E doc \in {RizzDocument, NumberTemplateDocument} : Construct(doc)
    \/ StartRepl
    \/ \E l \in ReplLines, leaves \in BOOLEAN : ReadLine(l, leaves)
    \/ KeyboardInterrupt
    \/ EndOfFile

SpecRepl == Init /\ [][NextRepl]_vars


\* the line is empty or holds whitespace only
IsBlank(l) == \A i \in 1..Len(l) : l[i] \in {" ", "\t", "\n", "\r"}

\* the loop read a line and did not leave by exit() or quit()
LineProcessed ==
    /\ repl_pc = "prompt"
    /\ lines_read' = lines_read + 1
    /\ ~(Strip(input_line') \in {EXIT_CALL, QUIT_CALL} /\ indent_level = 0)

\* the line read is appended to the buffer; the counter goes up after a line
\* that ends with a colon and down after a blank line when it is positive;
\* exactly when the counter is then zero, the lines of the buffer, joined in
\* their order, are given once to to_python and its output to the evaluator,
\* and the loop prompts again with an empty buffer
BufferStep ==
    LineProcessed =>
        LET l == input_line'
            buf == Append(buffer, l)
            level == IF l # <<>> /\ l[Len(l)] = ":" THEN indent_level + 1
                     ELSE IF IsBlank(l) /\ indent_level > 0 THEN indent_level - 1
                     ELSE indent_level
        IN  IF level = 0
            THEN /\ code_to_execute' = Append(code_to_execute, JoinLines(buf))
                 /\ repl_pc' = "prompt" =>
                        /\ buffer' = <<>>
                        /\ indent_level' = 0
                        /\ python_code' = ToPythonOf(JoinLines(buf))
            ELSE /\ code_to_execute' = code_to_execute
                 /\ python_code' = python_code
                 /\ buffer' = buf
                 /\ indent_level' = level
                 /\ repl_pc' = "prompt"

\* C19: in the interactive driver every line is appended to the buffer, a
\* line ending with ':' increments the indent counter, a blank line while the
\* counter is positive decrements it, and the buffer is fed to to_python and
\* the evaluator exactly when the counter is zero after a line, all its lines
\* in input order, after which the buffer is empty.
BufferFedWhenClosed == [][BufferStep]_vars

\* a block of two lines was closed by an empty line and fed as one text
BufferWitness ==
    /\ repl_pc = "prompt"
    /\ lines_read = 3
    /\ code_to_execute = <<IF_X_COLON \o NEWLINE \o RIZZ \o NEWLINE>>
    /\ python_code = IF_X_COLON \o NEWLINE \o RETURN \o NEWLINE
    /\ buffer = <<>>
    /\ indent_level = 0

\* input() raised KeyboardInterrupt: nothing is evaluated, the buffer is
\* emptied and the counter is zero
InterruptStep ==
    (repl_pc = "prompt" /\ repl_pc' = "prompt" /\ lines_read' = lines_read) =>
        /\ buffer' = <<>>
        /\ indent_level' = 0
        /\ code_to_execute' = code_to_execute
        /\ python_code' = python_code

\* exit() or quit() read while the counter is positive is a line like another
ExitStep ==
    (/\ repl_pc = "prompt"
     /\ lines_read' = lines_read + 1
     /\ Strip(input_line') \in {EXIT_CALL, QUIT_CALL}) =>
        IF indent_level > 0
        THEN repl_pc' = "prompt" /\ buffer' = Append(buffer, input_line')
        ELSE repl_pc' = "ended" /\ code_to_execute' = code_to_execute

CounterAndBuffer ==
    /\ indent_level >= 0
    /\ (repl_pc = "prompt" /\ indent_level = 0) => buffer = <<>>

\* C20: in the loop the indent counter is never negative, and at a prompt with
\* the counter at zero the buffer is empty; a KeyboardInterrupt resets both
\* without evaluating the pending lines; exit() and quit() end the loop only
\* when the counter is zero.
ReplInvariants == []CounterAndBuffer /\ [][InterruptStep /\ ExitStep]_vars

\* two pending lines were dropped by a KeyboardInterrupt: nothing was evaluated
InterruptWitness ==
    /\ repl_pc = "prompt"
    /\ lines_read = 2
    /\ input_line = RIZZ
    /\ buffer = <<>>
    /\ indent_level = 0
    /\ code_to_execute = <<>>

====
